---- MODULE Spec2Model ----
(***************************************************************************)
(* One request to POST /v1/chat/completions of the model router: body      *)
(* validation, the heuristic and probe classification, the model resolver  *)
(* and the streaming / non-streaming relay, together with the client's     *)
(* disconnect signal and the caller-facing stream controller.              *)
(***************************************************************************)
EXTENDS Integers, Sequences, FiniteSets, TLC

(* ------------------------------ bounds ------------------------------ *)

\* filler characters put in front of a text to bring it near the threshold
PadLong == 993
\* fragments concatenated to build a text
MaxFrags == 2
\* fragments the probe stream delivers before it must end or fail
MaxProbeChunks == 2
\* chunks the relay stream delivers before it must end or fail
MaxChunks == 2
\* messages of a conversation
MaxMessages == 2
\* parts of a message content
MaxParts == 2

(* ------------------------------- text ------------------------------- *)

\* Strings are sequences of one-character strings.
Upper == <<"A","B","C","D","E","F","G","H","I","J","K","L","M",
           "N","O","P","Q","R","S","T","U","V","W","X","Y","Z">>

Lower == <<"a","b","c","d","e","f","g","h","i","j","k","l","m",
           "n","o","p","q","r","s","t","u","v","w","x","y","z">>

LowerChar(c) ==
  IF \E i \in 1..Len(Upper) : Upper[i] = c
    THEN Lower[CHOOSE i \in 1..Len(Upper) : Upper[i] = c]
    ELSE c

toLowerCase(s) == [i \in 1..Len(s) |-> LowerChar(s[i])]

includes(s, k) ==
  \E i \in 0..(Len(s) - Len(k)) : SubSeq(s, i + 1, i + Len(k)) = k

startsWith(s, k) ==
  /\ Len(s) >= Len(k)
  /\ SubSeq(s, 1, Len(k)) = k

Repeat(c, n) == [i \in 1..n |-> c]

RECURSIVE Flatten(_)
Flatten(ss) == IF ss = <<>> THEN <<>> ELSE Head(ss) \o Flatten(Tail(ss))

(* ----------------------- classifier constants ----------------------- *)

LengthThreshold == 1000

keywords ==
  { <<"l","e","g","a","l">>,
    <<"m","e","d","i","c","a","l">>,
    <<"a","n","a","l","y","s","i","s">>,
    <<"p","h","i","l","o","s","o","p","h","y">> }

Marker == <<"=","=">>

DefaultSlowModel == "gpt-4o-mini"

DefaultFastModel == "gpt-4o"

(* ------------------------------ inputs ------------------------------ *)

Absent == "<absent>"

Str(s) == [kind |-> "string", text |-> s]

Parts(ps) == [kind |-> "parts", parts |-> ps]

TextFragments ==
  { <<"h","i">>,
    <<"l","e","g">>,
    <<"a","l">>,
    <<"L","e","G","a","L">>,
    <<"M","E","D","I","C","A","L">>,
    <<"A","n","a","l","y","s","i","s">>,
    <<"p","h","i","l","o","s","o","p","h","y">> }

\* every text made of at most MaxFrags fragments, and each fragment (and
\* the empty text) behind a run of filler that brings it near the threshold
Texts ==
  { Flatten(fs) : fs \in UNION { [1..k -> TextFragments] : k \in 0..MaxFrags } }
    \cup { Repeat("x", PadLong) \o f : f \in TextFragments \cup {<<>>} }

\* the three texts of the routing inputs: probe, keyword rule, length rule
RoutingTexts ==
  { <<"h","i">>,
    <<"L","e","G","a","L">>,
    Repeat("x", PadLong) \o <<"p","h","i","l","o","s","o","p","h","y">> }

\* a ChatMessage; name is Absent when the message has none
Message(role, content, name) == [role |-> role, content |-> content, name |-> name]

UserMessage(t) == Message("user", Str(t), Absent)

\* the system instruction the probe adds; Instruction stands for its text
Instruction == <<"<If the user's query requires ... start your response with '=='>">>

COMPLEXITY_CHECK_PROMPT == Message("system", Str(Instruction), Absent)

BareName(n) == [kind |-> "string", value |-> n]

Config(n, k, u) == [kind |-> "config", name |-> n, apiKey |-> k, apiUrl |-> u]

NoSelector == [kind |-> "absent"]

GoodUrl == "https://models.example/v1"

BadUrl == "not a url"

Selectors ==
  { NoSelector,
    BareName(""),
    BareName("m1"),
    Config("", Absent, Absent),
    Config("m2", "sk-model", GoodUrl),
    Config("m2", Absent, BadUrl) }

\* the Authorization header, as the words between its spaces
NoHeader == [present |-> FALSE, words |-> <<>>]

Header(words) == [present |-> TRUE, words |-> words]

AuthHeaders ==
  { NoHeader,
    Header(<<"Bearer", "sk-caller">>),
    Header(<<"sk-caller">>),
    Header(<<"Bearer", "">>) }

\* a request body; model is a pass-through parameter, Absent when not sent
Request(msgs, fast, slow, stream) ==
  [messages |-> msgs, fastModel |-> fast, slowModel |-> slow, stream |-> stream,
   model |-> Absent]

\* the body with the pass-through parameter `model`
WithModel(b, m) == [b EXCEPT !.model = m]

\* the requests the handler is run on: every text with the other fields
\* fixed, every pair of selectors on the three routing texts, and the
\* bodies the schema or the JSON parser rejects
TextInputs ==
  { [jsonOk |-> TRUE, envKey |-> TRUE, auth |-> NoHeader,
     body |-> Request(<<UserMessage(t)>>, NoSelector, NoSelector, "false")] :
      t \in Texts }

RoutingInputs ==
  { [jsonOk |-> TRUE, envKey |-> TRUE, auth |-> NoHeader,
     body |-> Request(<<UserMessage(t)>>, f, s, st)] :
      t \in RoutingTexts, f \in Selectors, s \in Selectors, st \in {"true", "false"} }

EdgeInputs ==
  { [jsonOk |-> j, envKey |-> e, auth |-> NoHeader,
     body |-> Request(m, f, NoSelector, Absent)] :
      j \in BOOLEAN, e \in BOOLEAN,
      m \in {<<>>, <<UserMessage(<<"h","i">>)>>},
      f \in {NoSelector, BareName(""), BareName("m1")} }

\* every source of a credential, on a text the probe decides
CredentialSelectors ==
  { NoSelector,
    BareName("m1"),
    Config("m2", "sk-model", GoodUrl),
    Config("m2", "", GoodUrl),
    Config("m3", "sk-model", Absent) }

CredentialInputs ==
  { [jsonOk |-> TRUE, envKey |-> e, auth |-> a,
     body |-> Request(<<UserMessage(t)>>, m, m, "false")] :
      e \in BOOLEAN, a \in AuthHeaders, m \in CredentialSelectors,
      t \in {<<"h","i">>} }

\* the parts of a content: text, image and audio
TextPart(t) == [type |-> "text", text |-> t]

ImagePart == [type |-> "image_url", image_url |-> [url |-> GoodUrl]]

AudioPart == [type |-> "audio", audio |-> [url |-> GoodUrl]]

ContentParts ==
  { TextPart(<<"l","e","g">>), TextPart(<<"a","l">>), ImagePart, AudioPart }

\* a user message whose content is any sequence of at most MaxParts parts
PartsInputs ==
  { [jsonOk |-> TRUE, envKey |-> TRUE, auth |-> NoHeader,
     body |-> Request(<<Message("user", Parts(ps), Absent)>>,
                      NoSelector, NoSelector, "false")] :
      ps \in UNION { [1..k -> ContentParts] : k \in 0..MaxParts } }

\* messages of several roles, with and without a name, whose texts would
\* each trigger a rule except the first
ConversationMessages ==
  { Message("user", Str(<<"h","i">>), Absent),
    Message("user", Str(<<"L","e","G","a","L">>), "bob"),
    Message("assistant", Parts(<<TextPart(<<"M","E","D","I","C","A","L">>)>>), Absent),
    Message("system",
            Str(Repeat("x", PadLong) \o <<"p","h","i","l","o","s","o","p","h","y">>),
            Absent) }

\* every conversation of one to MaxMessages of these messages
ConversationInputs ==
  { [jsonOk |-> TRUE, envKey |-> TRUE, auth |-> NoHeader,
     body |-> Request(ms, NoSelector, NoSelector, "false")] :
      ms \in UNION { [1..k -> ConversationMessages] : k \in 1..MaxMessages } }

\* requests that carry the pass-through parameter `model`
PassThroughInputs ==
  { [jsonOk |-> TRUE, envKey |-> TRUE, auth |-> NoHeader,
     body |-> WithModel(Request(<<UserMessage(<<"h","i">>)>>, m, m, st), "gpt-caller")] :
      m \in {NoSelector, BareName("m1")}, st \in {"true", "false"} }

Inputs ==
  TextInputs \cup RoutingInputs \cup EdgeInputs \cup CredentialInputs
    \cup PartsInputs \cup ConversationInputs \cup PassThroughInputs

(* ---------------------------- validation ---------------------------- *)

\* new URL(u) does not throw
ParsesAsUrl(u) == u = GoodUrl

\* a credential that is not a string (a number, say)
NotAString == "<number>"

\* ModelConfigSchema: the issues of a structured selector
ModelConfigSchemaLax(c) == {}

ModelConfigSchema(c) ==
  (IF c.name = "" THEN {"name"} ELSE {})
    \cup (IF c.apiKey = NotAString THEN {"apiKey"} ELSE {})
    \cup (IF c.apiUrl # Absent /\ ~ParsesAsUrl(c.apiUrl) THEN {"apiUrl"} ELSE {})

\* z.union([z.string(), ModelConfigSchema]).optional()
SelectorIssues(sel, path) ==
  IF sel.kind = "config" /\ ModelConfigSchema(sel) # {} THEN {path} ELSE {}

\* a selector the JavaScript condition takes as true
SelectorTruthy(sel) ==
  \/ sel.kind = "config"
  \/ sel.kind = "string" /\ sel.value # ""

\* RequestSchema.parseAsync: the paths of the issues it reports
RequestSchema(b, env) ==
  LET fields ==
        (IF Len(b.messages) < 1 THEN {"messages"} ELSE {})
          \cup SelectorIssues(b.fastModel, "fastModel")
          \cup SelectorIssues(b.slowModel, "slowModel")
  IN  IF fields # {} THEN fields
      ELSE IF SelectorTruthy(b.fastModel) \/ SelectorTruthy(b.slowModel) \/ env
             THEN {}
             ELSE {""}

validateModelConfigLax(config) == Absent

\* validateModelConfig: the offending field, or Absent for null
validateModelConfig(config) ==
  IF config.name = "" THEN "name"
  ELSE IF config.apiKey = NotAString THEN "apiKey"
  ELSE IF config.apiUrl # Absent /\ config.apiUrl # "" /\ ~ParsesAsUrl(config.apiUrl)
    THEN "apiUrl"
  ELSE Absent

\* getModelConfig up to the validation: the config of a selector
ConfigOf(modelParam, defaultModel) ==
  IF ~SelectorTruthy(modelParam) THEN Config(defaultModel, Absent, Absent)
  ELSE IF modelParam.kind = "string" THEN Config(modelParam.value, Absent, Absent)
  ELSE modelParam

(* ---------------------------- credentials --------------------------- *)

DefaultBaseUrl == "https://api.openai.com/v1"

\* a || b
Or(a, b) == IF a = Absent \/ a = "" THEN b ELSE a

\* process.env.OPENAI_API_KEY
EnvKey(env) == IF env THEN "sk-env" ELSE Absent

\* authHeader?.split(" ")[1]
HeaderKey(auth) ==
  IF auth.present /\ Len(auth.words) >= 2 THEN auth.words[2] ELSE Absent

\* the apiKey option of the probe's client
ProbeKey(r) == Or(HeaderKey(r.auth), EnvKey(r.envKey))

\* the apiKey option of the relay's client
RelayKeyHeaderFirst(config, r) ==
  Or(HeaderKey(r.auth), Or(config.apiKey, EnvKey(r.envKey)))

RelayKey(config, r) == Or(config.apiKey, Or(HeaderKey(r.auth), EnvKey(r.envKey)))

\* the baseURL option of the relay's client
RelayBaseUrl(config) == Or(config.apiUrl, DefaultBaseUrl)

(* --------------------------- classification ------------------------- *)

extractTextFromContentUnspaced(content) ==
  IF content.kind = "string" THEN content.text
  ELSE Flatten([i \in 1..Len(content.parts) |->
                 IF content.parts[i].type = "text" THEN content.parts[i].text
                 ELSE <<>>])

\* content.filter((part) => part.type === "text").map((part) => part.text)
\* .join(" "), or the content itself when it is a string
extractTextFromContent(content) ==
  IF content.kind = "string" THEN content.text
  ELSE LET texts == SelectSeq(content.parts, LAMBDA p : p.type = "text")
           RECURSIVE Join(_)
           Join(ps) ==
             IF ps = <<>> THEN <<>>
             ELSE IF Len(ps) = 1 THEN ps[1].text
             ELSE ps[1].text \o <<" ">> \o Join(Tail(ps))
       IN  Join(texts)

\* body.messages.findLast((m) => m.role === "user")?.content ?? ""
Prompt(messages) ==
  LET users == { i \in 1..Len(messages) : messages[i].role = "user" }
  IN  IF users = {} THEN Str(<<>>)
      ELSE messages[CHOOSE i \in users : \A j \in users : j <= i].content

NoOutcome == [useSlowModel |-> FALSE, reason |-> "none"]

Outcome(slow, reason) == [useSlowModel |-> slow, reason |-> reason]

\* the two synchronous rules of shouldUseSlowModel; NoOutcome when neither fires
HeuristicKeywordsFirst(textContent) ==
  IF \E keyword \in keywords : includes(toLowerCase(textContent), keyword)
    THEN Outcome(TRUE, "keywords")
  ELSE IF Len(textContent) > LengthThreshold THEN Outcome(TRUE, "length")
  ELSE NoOutcome

HeuristicCaseSensitive(textContent) ==
  IF Len(textContent) > LengthThreshold THEN Outcome(TRUE, "length")
  ELSE IF \E keyword \in keywords : includes(textContent, keyword)
    THEN Outcome(TRUE, "keywords")
  ELSE NoOutcome

Heuristic(textContent) ==
  IF Len(textContent) > LengthThreshold THEN Outcome(TRUE, "length")
  ELSE IF \E keyword \in keywords : includes(toLowerCase(textContent), keyword)
    THEN Outcome(TRUE, "keywords")
  ELSE NoOutcome

\* the fragments a probe chunk can carry: none, empty, and texts
NoFragment == <<"<undefined>">>

ProbeFragments ==
  { NoFragment,
    <<>>,
    <<"=","=","Y","e","s">>,
    <<"=">>,
    <<" ","=","=">>,
    <<"H","i">> }

\* if (contentPiece)
Truthy(contentPiece) == contentPiece # NoFragment /\ contentPiece # <<>>

(* ------------------------------ errors ------------------------------ *)

ZodError(paths) == [type |-> "ZodError", field |-> Absent, status |-> 0, codes |-> {}, paths |-> paths]

SyntaxError == [type |-> "SyntaxError", field |-> Absent, status |-> 0, codes |-> {}, paths |-> {}]

\* an Error whose name is "AbortError"
AbortError == [type |-> "AbortError", field |-> Absent, status |-> 0, codes |-> {}, paths |-> {}]

\* an Error that is no backend answer; codes are those of "401", "404" and
\* "429" that its message contains
Error(codes) == [type |-> "Error", field |-> Absent, status |-> 0, codes |-> codes, paths |-> {}]

\* the backend answered with an error status: the message is the status
\* followed by the backend's own text
BackendError(status, codes) ==
  [type |-> "Error", field |-> Absent, status |-> status, codes |-> codes, paths |-> {}]

\* new Error(`Invalid model configuration: ${error.message} (${error.field})`)
InvalidModelConfig(field) == [Error({}) EXCEPT !.field = field]

StatusCode(status) ==
  CASE status = 401 -> {"401"}
    [] status = 404 -> {"404"}
    [] status = 429 -> {"429"}
    [] OTHER -> {}

\* the failures of a backend call: a connection failure, each error status
\* with a text of no digits, and two whose text holds the digits of another
\* status (a model named "gpt-401", a limit of 40400 tokens)
BackendErrors ==
  { Error({}), BackendError(500, {}) }
    \cup { BackendError(st, StatusCode(st)) : st \in {401, 404, 429} }
    \cup { BackendError(404, StatusCode(404) \cup {"401"}),
           BackendError(429, StatusCode(429) \cup {"404"}) }

NoResponse ==
  [status |-> 0, kind |-> "none", error |-> "", details |-> {}, payload |-> Absent]

\* c.json({ error, details }, status)
Json(status, error, details) ==
  [status |-> status, kind |-> "json", error |-> error, details |-> details,
   payload |-> Absent]

\* the body c.json writes for a value
JsonBody(value) == <<"application/json", value>>

\* c.json(completion)
JsonOf(completion) ==
  [status |-> 200, kind |-> "json", error |-> "", details |-> {},
   payload |-> JsonBody(completion)]

\* new Response(new ReadableStream(...), { headers })
StreamResponse ==
  [status |-> 200, kind |-> "stream", error |-> "", details |-> {}, payload |-> Absent]

\* the catch block of the handler
MapError(error) ==
  IF error.type = "AbortError"
    THEN [status |-> 499, kind |-> "empty", error |-> "", details |-> {},
          payload |-> Absent]
  ELSE IF error.type = "ZodError" THEN Json(400, "Validation failed", error.paths)
  ELSE IF error.type = "SyntaxError" THEN Json(400, "Invalid JSON in request body", {})
  ELSE IF "401" \in error.codes THEN Json(401, "Invalid API key", {})
  ELSE IF "404" \in error.codes THEN Json(404, "Model not found", {})
  ELSE IF "429" \in error.codes THEN Json(429, "Rate limit exceeded", {})
  ELSE Json(500, "Model proxy failed", {})

(* ------------------------------- state ------------------------------ *)

VARIABLES
  req,                    \* the inbound request: JSON validity, body, environment
  body,                   \* the parsed body the handler holds
  probeRequest,           \* what the probe's create call was given
  pc,                     \* where the handler (then the relay loop) stands
  clientAborted,          \* c.req.raw.signal.aborted
  abortControllerAborted, \* abortController.signal.aborted
  outcome,                \* what shouldUseSlowModel returned
  thrown,                 \* the error the handler's catch block received
  probeConn,              \* the probe's backend connection
  probeCalls,             \* create calls made by shouldUseSlowModel
  probeReleases,          \* times the probe connection was let go
  probeRead,              \* fragments the probe loop has read
  probeFailed,            \* the probe threw
  modelConfig,            \* the selector the resolver returned
  relayConn,              \* the relay's backend connection
  relayCalls,             \* create calls made by the relay
  relayReleases,          \* times the relay connection was let go
  relayRequest,           \* what the relay's client and create call were given
  relayExit,              \* how the relay's call or loop ended
  received,               \* chunks the relay loop got from the backend
  forwarded,              \* events enqueued on the caller-facing stream
  ctrl,                   \* the caller-facing stream controller
  ctrlFaults,             \* controller operations that threw
  ctrlLog,                \* controller operations issued, in order
  response                \* what the handler returned

vars ==
  << req, body, probeRequest, pc, clientAborted, abortControllerAborted, outcome, thrown,
     probeConn, probeCalls, probeReleases, probeRead, probeFailed,
     modelConfig, relayConn, relayCalls, relayReleases, relayRequest, relayExit,
     received, forwarded, ctrl, ctrlFaults, ctrlLog, response >>

probeVars == << probeConn, probeCalls, probeReleases, probeRead, probeFailed >>

relayVars == << relayConn, relayCalls, relayReleases, relayRequest, relayExit >>

streamVars == << received, forwarded, ctrl, ctrlFaults, ctrlLog >>

signalVars == << clientAborted, abortControllerAborted >>

NoConfig == Config(Absent, Absent, Absent)

NoError == [type |-> "none", field |-> Absent, status |-> 0, codes |-> {}, paths |-> {}]

NoRequest ==
  [apiKey |-> Absent, baseURL |-> Absent, model |-> Absent, stream |-> Absent,
   messages |-> <<>>]

\* the handler has not parsed a body
NoBody == Request(<<>>, NoSelector, NoSelector, Absent)

NoProbeRequest == [model |-> Absent, messages |-> <<>>, stream |-> Absent, max_tokens |-> 0]

NoExit == [how |-> "none", aborted |-> FALSE, value |-> Absent]

\* the relay's call or loop ended this way, the client gone or not
Exit(how, value) == [how |-> how, aborted |-> clientAborted, value |-> value]

ChunkVals == {"c1", "c2"}

\* the completions a non-streaming call can return
Completions == {"completion1", "completion2"}

\* `data: ${JSON.stringify(chunk)}\n\n`
Frame(chunk) == <<"data: ", chunk, "\n\n">>

Init ==
  /\ req \in Inputs
  /\ body = NoBody
  /\ probeRequest = NoProbeRequest
  /\ pc = "parse"
  /\ clientAborted = FALSE
  /\ abortControllerAborted = FALSE
  /\ outcome = NoOutcome
  /\ thrown = NoError
  /\ probeConn = "none"
  /\ probeCalls = 0
  /\ probeReleases = 0
  /\ probeRead = <<>>
  /\ probeFailed = FALSE
  /\ modelConfig = NoConfig
  /\ relayConn = "none"
  /\ relayCalls = 0
  /\ relayReleases = 0
  /\ relayRequest = NoRequest
  /\ relayExit = NoExit
  /\ received = <<>>
  /\ forwarded = <<>>
  /\ ctrl = "none"
  /\ ctrlFaults = 0
  /\ ctrlLog = <<>>
  /\ response = NoResponse

(* ------------------------------ handler ----------------------------- *)

\* an error reaches the catch block of the handler, which answers it
Catch(error) ==
  /\ thrown' = error
  /\ response' = MapError(error)
  /\ pc' = "done"

\* const rawBody = await c.req.json(); RequestSchema.parseAsync(rawBody);
\* then new OpenAI for the probe, which throws when it is given no key.
\* Reading the body of a request whose client has gone either rejects with
\* an AbortError or delivers what had arrived.
Parse ==
  /\ pc = "parse"
  /\ \/ /\ clientAborted
        /\ Catch(AbortError)
        /\ UNCHANGED body
     \/ IF ~req.jsonOk THEN Catch(SyntaxError) /\ UNCHANGED body
        ELSE IF RequestSchema(req.body, req.envKey) # {}
          THEN /\ Catch(ZodError(RequestSchema(req.body, req.envKey)))
               /\ UNCHANGED body
        ELSE /\ body' = req.body
             /\ IF ProbeKey(req) = Absent THEN Catch(Error({}))
                ELSE /\ pc' = "classify"
                     /\ UNCHANGED << thrown, response >>
  /\ UNCHANGED << req, probeRequest, signalVars, outcome, probeVars, modelConfig,
                  relayVars, streamVars >>

\* messages.map((msg) => ({ role: msg.role, content: msg.content })): the
\* copy has no name
CheckMessage(msg) == Message(msg.role, msg.content, Absent)

\* array.splice(start, 0, item) for 0 <= start <= array.length
Splice(array, start, item) ==
  SubSeq(array, 1, start) \o <<item>> \o SubSeq(array, start + 1, Len(array))

MessagesWithCheckAppended(messages) ==
  LET copies == [i \in 1..Len(messages) |-> CheckMessage(messages[i])]
  IN  Splice(copies, Len(copies), COMPLEXITY_CHECK_PROMPT)

\* messagesWithCheck: the copies of the messages with the instruction put
\* before the last of them
MessagesWithCheck(messages) ==
  LET copies == [i \in 1..Len(messages) |-> CheckMessage(messages[i])]
  IN  Splice(copies, Len(copies) - 1, COMPLEXITY_CHECK_PROMPT)

\* the parameters of the probe's create call
ProbeRequest(messages) ==
  [model |-> "gpt-4o", messages |-> MessagesWithCheck(messages), stream |-> "true",
   max_tokens |-> 10]

ClassifyWholeConversation ==
  /\ pc = "classify"
  /\ LET h == Heuristic(Flatten([i \in 1..Len(body.messages) |->
                           extractTextFromContent(body.messages[i].content)]))
     IN  IF h # NoOutcome
           THEN /\ outcome' = h
                /\ pc' = "resolve"
                /\ UNCHANGED << probeRequest, probeVars >>
           ELSE /\ probeRequest' = ProbeRequest(body.messages)
                /\ probeCalls' = probeCalls + 1
                /\ probeConn' = "open"
                /\ pc' = "probeCreate"
                /\ UNCHANGED << outcome, probeReleases, probeRead, probeFailed >>
  /\ UNCHANGED << req, body, signalVars, thrown, modelConfig, relayVars, streamVars,
                  response >>

\* the prompt of the last user message, then shouldUseSlowModel up to its
\* first await: the rules, then the probe's request and create call
Classify ==
  /\ pc = "classify"
  /\ LET h == Heuristic(extractTextFromContent(Prompt(body.messages)))
     IN  IF h # NoOutcome
           THEN /\ outcome' = h
                /\ pc' = "resolve"
                /\ UNCHANGED << probeRequest, probeVars >>
           ELSE /\ probeRequest' = ProbeRequest(body.messages)
                /\ probeCalls' = probeCalls + 1
                /\ probeConn' = "open"
                /\ pc' = "probeCreate"
                /\ UNCHANGED << outcome, probeReleases, probeRead, probeFailed >>
  /\ UNCHANGED << req, body, signalVars, thrown, modelConfig, relayVars, streamVars,
                  response >>

(* ------------------------------- probe ------------------------------ *)

LoopExitLeaks(conn) == conn

\* leaving a for-await loop early (break, return, throw in the body) calls
\* the stream iterator's return(), which lets the connection go
LoopExit(conn) == "closed"

VerdictIncludes(contentPiece) ==
  IF includes(contentPiece, Marker)
    THEN Outcome(TRUE, "model-detected")
    ELSE Outcome(FALSE, "model-simple")

\* the verdict on the first non-empty fragment
Verdict(contentPiece) ==
  IF startsWith(contentPiece, Marker)
    THEN Outcome(TRUE, "model-detected")
    ELSE Outcome(FALSE, "model-simple")

ProbeCreateRetries ==
  /\ pc = "probeCreate"
  /\ probeReleases' = probeReleases + 1
  /\ probeCalls' = probeCalls + 1
  /\ UNCHANGED << req, body, probeRequest, pc, signalVars, outcome, thrown, probeConn, probeRead,
                  probeFailed, modelConfig, relayVars, streamVars, response >>

\* await client.chat.completions.create(...) of the probe rejects
ProbeCreateFails ==
  /\ pc = "probeCreate"
  /\ probeConn' = "closed"
  /\ probeReleases' = probeReleases + 1
  /\ probeFailed' = TRUE
  /\ outcome' = Outcome(FALSE, "check-failed")
  /\ pc' = "resolve"
  /\ UNCHANGED << req, body, probeRequest, signalVars, thrown, probeCalls, probeRead,
                  modelConfig, relayVars, streamVars, response >>

\* await client.chat.completions.create(...) of the probe returns the stream
ProbeStreamOpens ==
  /\ pc = "probeCreate"
  /\ pc' = "probeRead"
  /\ UNCHANGED << req, body, probeRequest, signalVars, outcome, thrown, probeVars,
                  modelConfig, relayVars, streamVars, response >>

\* one turn of the probe's for-await loop
ProbeChunk ==
  /\ pc = "probeRead"
  /\ Len(probeRead) < MaxProbeChunks
  /\ \E contentPiece \in ProbeFragments :
       /\ probeRead' = Append(probeRead, contentPiece)
       /\ IF Truthy(contentPiece)
            THEN /\ outcome' = Verdict(contentPiece)
                 /\ probeConn' = LoopExit(probeConn)
                 /\ probeReleases' = probeReleases + 1
                 /\ pc' = "resolve"
            ELSE UNCHANGED << outcome, probeConn, probeReleases, pc >>
  /\ UNCHANGED << req, body, probeRequest, signalVars, thrown, probeCalls, probeFailed,
                  modelConfig, relayVars, streamVars, response >>

\* the probe stream ends without a non-empty fragment
ProbeEnds ==
  /\ pc = "probeRead"
  /\ probeConn' = "closed"
  /\ probeReleases' = probeReleases + 1
  /\ outcome' = Outcome(FALSE, "model-simple")
  /\ pc' = "resolve"
  /\ UNCHANGED << req, body, probeRequest, signalVars, thrown, probeCalls, probeRead, probeFailed,
                  modelConfig, relayVars, streamVars, response >>

ProbeStreamFailsPropagates ==
  /\ pc = "probeRead"
  /\ probeConn' = "closed"
  /\ probeReleases' = probeReleases + 1
  /\ probeFailed' = TRUE
  /\ Catch(Error({}))
  /\ UNCHANGED << req, body, probeRequest, signalVars, outcome, probeCalls, probeRead,
                  modelConfig, relayVars, streamVars >>

\* the probe stream raises while being read
ProbeStreamFails ==
  /\ pc = "probeRead"
  /\ probeConn' = "closed"
  /\ probeReleases' = probeReleases + 1
  /\ probeFailed' = TRUE
  /\ outcome' = Outcome(FALSE, "check-failed")
  /\ pc' = "resolve"
  /\ UNCHANGED << req, body, probeRequest, signalVars, thrown, probeCalls, probeRead,
                  modelConfig, relayVars, streamVars, response >>

(* ------------------------- resolver and relay ----------------------- *)

ChosenSwapped(b, o) ==
  IF o.useSlowModel
    THEN ConfigOf(b.slowModel, DefaultFastModel)
    ELSE ConfigOf(b.fastModel, DefaultSlowModel)

\* the selector of the side the classification chose
Chosen(b, o) ==
  IF o.useSlowModel
    THEN ConfigOf(b.slowModel, DefaultSlowModel)
    ELSE ConfigOf(b.fastModel, DefaultFastModel)

\* new OpenAI({ apiKey, baseURL }) of the relay, and the model it asks for
\* { model: modelConfig.name, ...openaiParams }: a property the spread
\* carries replaces the one written before it
Spread(value, param) == IF param = Absent THEN value ELSE param

\* the relay's client options and the parameters of its create call:
\* { model: modelConfig.name, messages: body.messages, stream: true,
\*   ...openaiParams } when body.stream, without the stream: true otherwise
RelayRequest(config, r, b) ==
  [apiKey |-> RelayKey(config, r), baseURL |-> RelayBaseUrl(config),
   model |-> Spread(config.name, b.model),
   messages |-> b.messages,
   stream |-> IF b.stream = "true" THEN Spread("true", b.stream)
              ELSE Spread(Absent, b.stream)]

\* getModelConfig of the chosen side, the relay's client, then its create
\* call; the client has a key, the probe's client having had one
Resolve ==
  /\ pc = "resolve"
  /\ LET config == Chosen(body, outcome)
     IN  IF validateModelConfig(config) # Absent
           THEN /\ Catch(InvalidModelConfig(validateModelConfig(config)))
                /\ UNCHANGED << modelConfig, relayVars >>
           ELSE /\ modelConfig' = config
                /\ relayRequest' = RelayRequest(config, req, body)
                /\ relayCalls' = relayCalls + 1
                /\ relayConn' = "open"
                /\ pc' = "relayCreate"
                /\ UNCHANGED << thrown, response, relayReleases, relayExit >>
  /\ UNCHANGED << req, body, probeRequest, signalVars, outcome, probeVars, streamVars >>

\* the relay's create call rejects
RelayCreateFails ==
  /\ pc = "relayCreate"
  /\ \E error \in BackendErrors : Catch(error)
  /\ relayConn' = "closed"
  /\ relayReleases' = relayReleases + 1
  /\ relayExit' = Exit("rejected", Absent)
  /\ UNCHANGED << req, body, probeRequest, signalVars, outcome, probeVars, modelConfig,
                  relayCalls, relayRequest, streamVars >>

\* streaming: create returns the stream and the handler returns the Response;
\* the finally block finds activeStream null
RelayStreamOpens ==
  /\ pc = "relayCreate"
  /\ body.stream = "true"
  /\ response' = StreamResponse
  /\ ctrl' = "open"
  /\ pc' = "relayLoop"
  /\ UNCHANGED << req, body, probeRequest, signalVars, outcome, thrown, probeVars, modelConfig,
                  relayVars, received, forwarded, ctrlFaults, ctrlLog >>

RelayRespondsWrapped ==
  /\ pc = "relayCreate"
  /\ body.stream # "true"
  /\ relayConn' = "closed"
  /\ relayReleases' = relayReleases + 1
  /\ \E completion \in Completions :
       /\ relayExit' = Exit("responded", completion)
       /\ response' = JsonOf(<<"data: ", completion, "\n\n">>)
  /\ pc' = "done"
  /\ UNCHANGED << req, body, probeRequest, signalVars, outcome, thrown, probeVars, modelConfig,
                  relayCalls, relayRequest, streamVars >>

\* non-streaming: create returns the completion, answered with c.json
RelayResponds ==
  /\ pc = "relayCreate"
  /\ body.stream # "true"
  /\ relayConn' = "closed"
  /\ relayReleases' = relayReleases + 1
  /\ \E completion \in Completions :
       /\ relayExit' = Exit("responded", completion)
       /\ response' = JsonOf(completion)
  /\ pc' = "done"
  /\ UNCHANGED << req, body, probeRequest, signalVars, outcome, thrown, probeVars, modelConfig,
                  relayCalls, relayRequest, streamVars >>

CloseSkipped ==
  UNCHANGED << ctrl, ctrlFaults, ctrlLog >>

\* controller.close() in the finally block of start()
Close ==
  IF clientAborted THEN UNCHANGED << ctrl, ctrlFaults, ctrlLog >>
  ELSE /\ ctrlLog' = Append(ctrlLog, "close")
       /\ IF ctrl = "open"
            THEN ctrl' = "closed" /\ UNCHANGED ctrlFaults
            ELSE ctrlFaults' = ctrlFaults + 1 /\ UNCHANGED ctrl

RelayChunkUnchecked ==
  /\ pc = "relayLoop"
  /\ Len(received) < MaxChunks
  /\ \E chunk \in ChunkVals :
       /\ received' = Append(received, chunk)
       /\ forwarded' = Append(forwarded, Frame(chunk))
  /\ ctrlLog' = Append(ctrlLog, "enqueue")
  /\ UNCHANGED << req, body, probeRequest, signalVars, outcome, thrown, probeVars, modelConfig,
                  relayVars, ctrl, ctrlFaults, pc, response >>

RelayChunkPrepends ==
  /\ pc = "relayLoop"
  /\ Len(received) < MaxChunks
  /\ \E chunk \in ChunkVals :
       /\ received' = Append(received, chunk)
       /\ IF clientAborted
            THEN /\ relayConn' = LoopExit(relayConn)
                 /\ relayReleases' = relayReleases + 1
                 /\ relayExit' = Exit("returned", Absent)
                 /\ pc' = "done"
                 /\ UNCHANGED << forwarded, ctrl, ctrlFaults, ctrlLog >>
            ELSE /\ forwarded' = <<Frame(chunk)>> \o forwarded
                 /\ ctrlLog' = Append(ctrlLog, "enqueue")
                 /\ UNCHANGED << relayConn, relayReleases, relayExit, pc,
                                 ctrl, ctrlFaults >>
  /\ UNCHANGED << req, body, probeRequest, signalVars, outcome, thrown, probeVars, modelConfig,
                  relayCalls, relayRequest, response >>

\* one turn of the relay's for-await loop; enqueue on a stream that is no
\* longer readable throws, which leaves the loop through catch and finally
RelayChunk ==
  /\ pc = "relayLoop"
  /\ Len(received) < MaxChunks
  /\ \E chunk \in ChunkVals :
       /\ received' = Append(received, chunk)
       /\ IF clientAborted
            THEN /\ relayConn' = LoopExit(relayConn)
                 /\ relayReleases' = relayReleases + 1
                 /\ relayExit' = Exit("returned", Absent)
                 /\ pc' = "done"
                 /\ UNCHANGED << forwarded, ctrl, ctrlFaults, ctrlLog >>
            ELSE IF ctrl = "open"
              THEN /\ forwarded' = Append(forwarded, Frame(chunk))
                   /\ ctrlLog' = Append(ctrlLog, "enqueue")
                   /\ UNCHANGED << relayConn, relayReleases, relayExit, pc,
                                   ctrl, ctrlFaults >>
              ELSE /\ relayConn' = LoopExit(relayConn)
                   /\ relayReleases' = relayReleases + 1
                   /\ relayExit' = Exit("threw", Absent)
                   /\ ctrlLog' = ctrlLog \o <<"enqueue", "error", "close">>
                   /\ ctrlFaults' = ctrlFaults + 2
                   /\ pc' = "done"
                   /\ UNCHANGED << forwarded, ctrl >>
  /\ UNCHANGED << req, body, probeRequest, signalVars, outcome, thrown, probeVars, modelConfig,
                  relayCalls, relayRequest, response >>

RelayEndsAbortsToo ==
  /\ pc = "relayLoop"
  /\ relayConn' = "closed"
  /\ relayReleases' = relayReleases + 2
  /\ relayExit' = Exit("ended", Absent)
  /\ Close
  /\ pc' = "done"
  /\ UNCHANGED << req, body, probeRequest, signalVars, outcome, thrown, probeVars, modelConfig,
                  relayCalls, relayRequest, received, forwarded, response >>

\* the relay stream ends
RelayEnds ==
  /\ pc = "relayLoop"
  /\ relayConn' = "closed"
  /\ relayReleases' = relayReleases + 1
  /\ relayExit' = Exit("ended", Absent)
  /\ Close
  /\ pc' = "done"
  /\ UNCHANGED << req, body, probeRequest, signalVars, outcome, thrown, probeVars, modelConfig,
                  relayCalls, relayRequest, received, forwarded, response >>

RelayStreamFailsAlwaysSignals ==
  /\ pc = "relayLoop"
  /\ relayConn' = "closed"
  /\ relayReleases' = relayReleases + 1
  /\ relayExit' = Exit("failed", Absent)
  /\ ctrlLog' = ctrlLog \o <<"error", "close">>
  /\ ctrl' = IF ctrl = "open" THEN "errored" ELSE ctrl
  /\ ctrlFaults' = ctrlFaults + 1
  /\ pc' = "done"
  /\ UNCHANGED << req, body, probeRequest, signalVars, outcome, thrown, probeVars, modelConfig,
                  relayCalls, relayRequest, received, forwarded, response >>

RelayStreamFailsSilent ==
  /\ pc = "relayLoop"
  /\ relayConn' = "closed"
  /\ relayReleases' = relayReleases + 1
  /\ relayExit' = Exit("failed", Absent)
  /\ UNCHANGED << ctrl, ctrlFaults, ctrlLog >>
  /\ pc' = "done"
  /\ UNCHANGED << req, body, probeRequest, signalVars, outcome, thrown, probeVars, modelConfig,
                  relayCalls, relayRequest, received, forwarded, response >>

\* the relay stream raises while being read: controller.error(error) and then
\* controller.close(), which throws on the errored stream, unless the client
\* has gone
RelayStreamFails ==
  /\ pc = "relayLoop"
  /\ relayConn' = "closed"
  /\ relayReleases' = relayReleases + 1
  /\ relayExit' = Exit("failed", Absent)
  /\ IF clientAborted THEN UNCHANGED << ctrl, ctrlFaults, ctrlLog >>
     ELSE /\ ctrlLog' = ctrlLog \o <<"error", "close">>
          /\ ctrl' = IF ctrl = "open" THEN "errored" ELSE ctrl
          /\ ctrlFaults' = ctrlFaults + 1
  /\ pc' = "done"
  /\ UNCHANGED << req, body, probeRequest, signalVars, outcome, thrown, probeVars, modelConfig,
                  relayCalls, relayRequest, received, forwarded, response >>

(* ------------------------------ client ------------------------------ *)

\* the abort listener on c.req.raw.signal
ClientDisconnect ==
  /\ ~clientAborted
  /\ clientAborted' = TRUE
  /\ abortControllerAborted' = TRUE
  /\ UNCHANGED << req, body, probeRequest, pc, outcome, thrown, probeVars, modelConfig,
                  relayVars, streamVars, response >>

\* cancel() of the ReadableStream: the server cancels the body it is
\* sending when the client has gone
ConsumerCancel ==
  /\ clientAborted
  /\ ctrl = "open"
  /\ ctrl' = "cancelled"
  /\ abortControllerAborted' = TRUE
  /\ UNCHANGED << req, body, probeRequest, pc, clientAborted, outcome, thrown, probeVars, modelConfig,
                  relayVars, received, forwarded, ctrlFaults, ctrlLog, response >>

Next ==
  \/ Parse
  \/ Classify
  \/ ProbeCreateFails
  \/ ProbeStreamOpens
  \/ ProbeChunk
  \/ ProbeEnds
  \/ ProbeStreamFails
  \/ Resolve
  \/ RelayCreateFails
  \/ RelayStreamOpens
  \/ RelayResponds
  \/ RelayChunk
  \/ RelayEnds
  \/ RelayStreamFails
  \/ ClientDisconnect
  \/ ConsumerCancel

Spec == Init /\ [][Next]_vars

(* ------------------------- the resolver alone ----------------------- *)

\* every selector getModelConfig can be handed, those the schema refuses
\* included
ResolverSelectors ==
  { NoSelector, BareName(""), BareName("m1") }
    \cup { Config(n, k, u) :
             n \in {"", "m1", "m2"},
             k \in {Absent, "", "sk-model", NotAString},
             u \in {Absent, "", GoodUrl, BadUrl} }

\* the handler stands before getModelConfig with one of these selectors on
\* both sides and either outcome of the classification
ResolverInit ==
  /\ \E m \in ResolverSelectors :
       /\ req = [jsonOk |-> TRUE, envKey |-> TRUE, auth |-> NoHeader,
                 body |-> Request(<<UserMessage(<<"h","i">>)>>, m, m, "false")]
       /\ body = req.body
  /\ outcome \in {Outcome(TRUE, "keywords"), Outcome(FALSE, "model-simple")}
  /\ pc = "resolve"
  /\ probeRequest = NoProbeRequest
  /\ clientAborted = FALSE
  /\ abortControllerAborted = FALSE
  /\ thrown = NoError
  /\ probeConn = "none"
  /\ probeCalls = 0
  /\ probeReleases = 0
  /\ probeRead = <<>>
  /\ probeFailed = FALSE
  /\ modelConfig = NoConfig
  /\ relayConn = "none"
  /\ relayCalls = 0
  /\ relayReleases = 0
  /\ relayRequest = NoRequest
  /\ relayExit = NoExit
  /\ received = <<>>
  /\ forwarded = <<>>
  /\ ctrl = "none"
  /\ ctrlFaults = 0
  /\ ctrlLog = <<>>
  /\ response = NoResponse

ResolverNext ==
  \/ Resolve
  \/ RelayCreateFails
  \/ RelayResponds

ResolverSpec == ResolverInit /\ [][ResolverNext]_vars

(* ------------------------------ claims ------------------------------ *)

\* the text the rules are evaluated on
PromptText == extractTextFromContent(Prompt(req.body.messages))

\* the body passed the schema and shouldUseSlowModel has returned
Classified == outcome # NoOutcome

\* the capital of each small letter
Capital ==
  [c \in {Lower[n] : n \in 1..Len(Lower)} |->
     Upper[CHOOSE n \in 1..Len(Lower) : Lower[n] = c]]

\* the text holds the term (written in small letters) at some place, each
\* letter small or capital
HoldsTerm(text, term) ==
  \E i \in 0..(Len(text) - Len(term)) :
    \A j \in 1..Len(term) :
      text[i + j] = term[j] \/ text[i + j] = Capital[term[j]]

\* the texts of the parts of type text, in order, a space between each two
RECURSIVE SpacedTexts(_)
SpacedTexts(parts) ==
  IF parts = <<>> THEN <<>>
  ELSE LET front == SubSeq(parts, 1, Len(parts) - 1)
           last == parts[Len(parts)]
       IN  IF last.type # "text" THEN SpacedTexts(front)
           ELSE IF \A i \in 1..Len(front) : front[i].type # "text" THEN last.text
           ELSE SpacedTexts(front) \o <<" ">> \o last.text

\* the messages of role user in a request
UserTurnsOf(r) ==
  { i \in 1..Len(r.body.messages) : r.body.messages[i].role = "user" }

\* the text of the last message of role user, empty when there is none
LastUserTextOf(r) ==
  IF UserTurnsOf(r) = {} THEN <<>>
  ELSE LET last == CHOOSE i \in UserTurnsOf(r) : \A j \in UserTurnsOf(r) : j <= i
           content == r.body.messages[last].content
       IN  IF content.kind = "string" THEN content.text ELSE SpacedTexts(content.parts)

UserTurns == UserTurnsOf(req)

LastUserText == LastUserTextOf(req)

\* whether it holds one of the four terms, for each text of the requests
TermTable ==
  [text \in { LastUserTextOf(r) : r \in Inputs } |->
     \E term \in keywords : HoldsTerm(text, term)]

\* the text holds one of the four terms
HoldsSomeTerm(text) ==
  IF text \in DOMAIN TermTable THEN TermTable[text]
  ELSE \E term \in keywords : HoldsTerm(text, term)

\* the places of the non-empty fragments among those the probe read
NonEmptyRead ==
  { i \in 1..Len(probeRead) : probeRead[i] # NoFragment /\ Len(probeRead[i]) > 0 }

\* a selector whose resolution fails validation
FailsValidation(sel, defaultModel) ==
  validateModelConfig(ConfigOf(sel, defaultModel)) # Absent

\* C1: once the client has disconnected, a step forwards no chunk and raises
\* no error on the caller-facing stream, and the relay loop stops at the
\* first chunk it receives.
C1_NoForwardAfterDisconnect ==
  [][clientAborted =>
       /\ forwarded' = forwarded
       /\ (ctrl' = "errored" => ctrl = "errored")
       /\ (pc = "relayLoop" /\ received' # received => pc' = "done")]_vars

\* a disconnect in mid-stream: a chunk came after it and was dropped
C1_Witness ==
  /\ clientAborted
  /\ pc = "done"
  /\ response.kind = "stream"
  /\ Len(forwarded) >= 1
  /\ Len(received) = Len(forwarded) + 1
  /\ ctrl # "errored"

C3_DisconnectReleases ==
  [][~clientAborted /\ clientAborted' =>
       /\ (probeConn = "open" => probeConn' = "closed")
       /\ (relayConn = "open" => relayConn' = "closed")]_vars

\* C4: the probe and the relay connection are never open together, the relay
\* connection is opened at most once, and only after the classifier returned
\* with its connection let go.
C4_OneConnectionAtATime ==
  /\ ~(probeConn = "open" /\ relayConn = "open")
  /\ relayCalls <= 1
  /\ (relayCalls > 0 => Classified /\ probeConn # "open")

\* the relay connection is open after a probe that read a fragment
C4_Witness ==
  /\ relayConn = "open"
  /\ probeCalls = 1
  /\ Len(probeRead) >= 1
  /\ probeConn = "closed"

\* C5: a text longer than 1000 characters issues no probe and, once
\* classified, is classified slow for its length.
C5_LengthRule ==
  Len(PromptText) > 1000 =>
    /\ probeCalls = 0
    /\ (Classified => outcome = [useSlowModel |-> TRUE, reason |-> "length"])

\* a long text that also holds a term was classified for its length
C5_Witness ==
  /\ Len(PromptText) > 1000
  /\ HoldsSomeTerm(PromptText)
  /\ Classified
  /\ outcome.reason = "length"
  /\ relayCalls = 1

\* C6: a text of at most 1000 characters that holds one of the terms in any
\* letter case issues no probe and, once classified, is classified slow for
\* its keywords.
C6_KeywordRule ==
  Len(PromptText) <= 1000 /\ HoldsSomeTerm(PromptText) =>
    /\ probeCalls = 0
    /\ (Classified => outcome = [useSlowModel |-> TRUE, reason |-> "keywords"])

\* a text holding a term only in capitals was classified for its keywords
C6_Witness ==
  /\ Len(PromptText) <= 1000
  /\ HoldsSomeTerm(PromptText)
  /\ ~\E term \in keywords : includes(PromptText, term)
  /\ Classified
  /\ outcome.reason = "keywords"

\* C7: the probe is called at most once; a classified text that triggers
\* neither rule was probed exactly once, and the outcome is the probe's:
\* check-failed when it threw, else model-detected or model-simple.
C7_ExactlyOneProbe ==
  /\ probeCalls <= 1
  /\ (Len(PromptText) <= 1000 /\ ~HoldsSomeTerm(PromptText) /\ Classified =>
        /\ probeCalls = 1
        /\ IF probeFailed
             THEN outcome.reason = "check-failed"
             ELSE outcome.reason \in {"model-detected", "model-simple"})

\* a text that triggers neither rule was probed once and classified by it
C7_Witness ==
  /\ Len(PromptText) <= 1000
  /\ ~HoldsSomeTerm(PromptText)
  /\ Classified
  /\ probeCalls = 1
  /\ outcome.reason = "model-detected"
  /\ pc = "done"

\* C8: after a failure of the probe the classification is fast with reason
\* check-failed, no error has reached the handler's catch block because of
\* it, and the request goes on to the resolver and to the relay's call.
C8_ProbeFailureAbsorbed ==
  probeFailed =>
    /\ outcome = [useSlowModel |-> FALSE, reason |-> "check-failed"]
    /\ pc \in {"resolve", "relayCreate", "relayLoop", "done"}
    /\ (pc # "resolve" => relayCalls = 1)

\* the probe stream raised after a fragment and the request was still served
C8_Witness ==
  /\ probeFailed
  /\ Len(probeRead) >= 1
  /\ pc = "done"
  /\ response.status = 200

\* C9: while the probe reads, every fragment read so far is empty; when it
\* returned without failing, the outcome is slow (model-detected) iff the
\* first non-empty fragment begins with two equals signs, fast
\* (model-simple) otherwise and when there is none, and nothing was read
\* after that fragment.
C9_FirstFragmentDecides ==
  /\ (pc = "probeRead" => NonEmptyRead = {})
  /\ (Classified /\ probeCalls = 1 /\ ~probeFailed =>
        IF NonEmptyRead = {}
          THEN outcome = [useSlowModel |-> FALSE, reason |-> "model-simple"]
          ELSE LET first == CHOOSE i \in NonEmptyRead : \A j \in NonEmptyRead : i <= j
                   piece == probeRead[first]
                   marked == Len(piece) >= 2 /\ piece[1] = "=" /\ piece[2] = "="
               IN  /\ Len(probeRead) = first
                   /\ outcome = IF marked
                                  THEN [useSlowModel |-> TRUE, reason |-> "model-detected"]
                                  ELSE [useSlowModel |-> FALSE, reason |-> "model-simple"])

\* an empty fragment, then one that holds the marker but not at its start
C9_Witness ==
  /\ Classified
  /\ ~probeFailed
  /\ Len(probeRead) = 2
  /\ probeRead[2] = <<" ", "=", "=">>
  /\ outcome.reason = "model-simple"

\* C10: a request with a selector whose resolution fails validation never
\* opens a backend connection, probe or relay, and ends in an error response.
C10_InvalidSelectorOpensNothing ==
  (req.jsonOk /\ (\/ FailsValidation(req.body.fastModel, DefaultFastModel)
                  \/ FailsValidation(req.body.slowModel, DefaultSlowModel))) =>
    /\ probeCalls = 0
    /\ relayCalls = 0
    /\ probeConn = "none"
    /\ relayConn = "none"
    /\ (pc = "done" => response.status >= 400)

\* a request whose fast selector has an empty name was refused with nothing opened
C10_Witness ==
  /\ req.jsonOk
  /\ req.body.fastModel.kind = "config"
  /\ req.body.fastModel.name = ""
  /\ Len(PromptText) <= 1000
  /\ ~HoldsSomeTerm(PromptText)
  /\ pc = "done"
  /\ response.status >= 400
  /\ probeCalls = 0
  /\ relayCalls = 0

\* the request named no selector for either side
NoSelectors ==
  /\ req.body.fastModel.kind = "absent"
  /\ req.body.slowModel.kind = "absent"

\* the resolver has returned a selector
Resolved == modelConfig # NoConfig

\* the selector the request gave for the side the classification chose
ChosenSelector ==
  IF outcome.useSlowModel THEN req.body.slowModel ELSE req.body.fastModel

\* C11: when the request supplies neither fastModel nor slowModel, the
\* resolver yields exactly the default name of the side the classification
\* chose, with no credential and no endpoint, on the slow side and on the
\* fast side alike.
C11_DefaultsWhenNoSelector ==
  (NoSelectors /\ Resolved) =>
    /\ outcome.useSlowModel =>
         modelConfig = [kind |-> "config", name |-> DefaultSlowModel,
                        apiKey |-> Absent, apiUrl |-> Absent]
    /\ ~outcome.useSlowModel =>
         modelConfig = [kind |-> "config", name |-> DefaultFastModel,
                        apiKey |-> Absent, apiUrl |-> Absent]

\* a request without selectors was sent to the slow side by the probe and
\* resolved to the slow default
C11_Witness ==
  /\ NoSelectors
  /\ Resolved
  /\ outcome.useSlowModel
  /\ outcome.reason = "model-detected"
  /\ modelConfig.name = DefaultSlowModel
  /\ relayCalls = 1

\* C12: for every bare-string selector s supplied for the chosen side, the
\* resolver yields the name s with no credential and no endpoint, so the
\* relay uses the default endpoint and the fallback credential.
C12_BareStringWrapped ==
  (Resolved /\ ChosenSelector.kind = "string") =>
    /\ modelConfig = [kind |-> "config", name |-> ChosenSelector.value,
                      apiKey |-> Absent, apiUrl |-> Absent]
    /\ relayRequest.baseURL = DefaultBaseUrl
    /\ relayRequest.apiKey \in {HeaderKey(req.auth), EnvKey(req.envKey)}

\* how many times the operation was issued on the controller
Issued(op) == Cardinality({ i \in DOMAIN ctrlLog : ctrlLog[i] = op })

\* the relay is in streaming mode and its stream was handed to the caller
Streaming == response.kind = "stream"

\* C13: in streaming mode the events written to the caller-facing stream are
\* at every moment a prefix of the chunks received from the backend, one
\* event per chunk and in the order received.
C13_ForwardedIsPrefix ==
  /\ Len(forwarded) <= Len(received)
  /\ \A i \in 1..Len(forwarded) : forwarded[i] = <<"data: ", received[i], "\n\n">>
  /\ Issued("enqueue") = Len(forwarded)

\* two different chunks were received and both were forwarded
C13_Witness ==
  /\ Streaming
  /\ received = <<"c1", "c2">>
  /\ Len(forwarded) = 2
  /\ forwarded[1] # forwarded[2]

\* C14: when the backend stream ends normally and the client is still
\* connected, the caller-facing stream is closed exactly once, after every
\* received chunk was forwarded, and nothing is written to it afterwards.
C14_ClosedOnceAfterAllChunks ==
  (relayExit.how = "ended" /\ ~relayExit.aborted) =>
    /\ ctrl = "closed"
    /\ Issued("close") = 1
    /\ Issued("error") = 0
    /\ Len(forwarded) = Len(received)
    /\ Len(ctrlLog) = Len(received) + 1
    /\ ctrlLog[Len(ctrlLog)] = "close"
    /\ ctrlFaults = 0

\* a stream of two chunks ended with the client connected
C14_Witness ==
  /\ relayExit.how = "ended"
  /\ ~relayExit.aborted
  /\ Len(received) = 2
  /\ ctrl = "closed"

\* C15: when the backend stream raises while being relayed, a connected
\* client gets the error on the caller-facing stream, which is thereby
\* terminated; when the client has gone the error is suppressed and nothing
\* is signalled on the caller-facing stream.
C15_MidStreamFailure ==
  relayExit.how = "failed" =>
    /\ pc = "done"
    /\ relayConn = "closed"
    /\ ~relayExit.aborted => (ctrl = "errored" /\ Issued("error") = 1)
    /\ relayExit.aborted =>
         /\ Issued("error") = 0
         /\ Issued("close") = 0
         /\ ctrl \in {"open", "cancelled"}
         /\ thrown = NoError

\* the backend stream raised after a chunk was forwarded and the client had gone
C15_Witness ==
  /\ relayExit.how = "failed"
  /\ relayExit.aborted
  /\ Len(forwarded) = 1
  /\ Issued("error") = 0

\* the status the cause of the failure calls for
StatusFor(error) ==
  CASE error.type = "AbortError" -> 499
    [] error.type = "ZodError" -> 400
    [] error.type = "SyntaxError" -> 400
    [] error.type = "Error" /\ error.status = 401 -> 401
    [] error.type = "Error" /\ error.status = 404 -> 404
    [] error.type = "Error" /\ error.status = 429 -> 429
    [] OTHER -> 500

\* C16: every failure that reaches the outermost handler is answered with the
\* one response its cause calls for: client abort 499 with an empty body,
\* schema violation 400 with the list of fields, malformed JSON 400, backend
\* credential rejected 401, unknown model 404, rate limited 429, and any
\* other failure 500 with a generic message.
C16_FailureMapping ==
  thrown # NoError =>
    /\ pc = "done"
    /\ response.status = StatusFor(thrown)
    /\ response.status = 499 => (response.kind = "empty" /\ response.payload = Absent)
    /\ thrown.type = "ZodError" =>
         (response.details = thrown.paths /\ response.error = "Validation failed")
    /\ response.status = 500 => response.error = "Model proxy failed"

\* C17: a client cancellation that occurs before the response has been
\* produced makes the response the handler then produces a 499 with an
\* empty body, neither an error response nor a normal relay.
C17_CancelBeforeResponseGives499 ==
  [][(clientAborted /\ response = NoResponse /\ response' # NoResponse) =>
       (response'.status = 499 /\ response'.kind = "empty")]_vars

\* the request has reached a terminal state
Terminal == pc = "done"

\* C18 as stated: resolver and relay failures are reported once, at the
\* outermost handler, and at a terminal state a caller-facing stream that
\* was partially written is not left open.
C18_ReportedAtHandlerNeverLeftOpen ==
  /\ relayExit.how \in {"rejected", "failed"} =>
       (thrown # NoError /\ response = MapError(thrown))
  /\ (Terminal /\ Len(forwarded) >= 1) => ctrl # "open"

\* C18: a relay failure is reported exactly once: by the outermost handler,
\* as a single JSON error and with no stream opened, when the create call
\* rejects; on the caller-facing stream, and not by the handler, when the
\* stream raises with the client connected; not at all when it raises with
\* the client gone. At a terminal state the caller-facing stream is closed
\* or errored if the client was connected when the relay ended, and is left
\* untouched (open until it is cancelled) if the client had gone.
C18_FailureReportedOnce ==
  /\ relayExit.how = "rejected" =>
       /\ thrown # NoError
       /\ response = MapError(thrown)
       /\ response.kind = "json"
       /\ ctrl = "none"
       /\ ctrlLog = <<>>
  /\ relayExit.how = "failed" =>
       /\ thrown = NoError
       /\ Streaming
       /\ Issued("error") = IF relayExit.aborted THEN 0 ELSE 1
  /\ (Terminal /\ Streaming /\ ~relayExit.aborted) => ctrl \in {"closed", "errored"}
  /\ (Terminal /\ Streaming /\ relayExit.aborted) =>
       /\ ctrl \in {"open", "cancelled"}
       /\ Issued("close") = 0
       /\ Issued("error") = 0
  /\ ~Streaming => ctrl = "none"

\* the stream raised after a chunk was forwarded to a connected client
C18_Witness ==
  /\ Terminal
  /\ relayExit.how = "failed"
  /\ ~relayExit.aborted
  /\ Len(forwarded) >= 1
  /\ ctrl = "errored"
  /\ thrown = NoError

\* C19: in non-streaming mode the relay makes exactly one request/response
\* exchange with the backend and, on success, answers with that response
\* unchanged as a single JSON payload; no chunk stream is opened.
C19_SingleExchange ==
  (req.jsonOk /\ req.body.stream # "true") =>
    /\ relayCalls <= 1
    /\ ctrl = "none"
    /\ ctrlLog = <<>>
    /\ received = <<>>
    /\ forwarded = <<>>
    /\ relayExit.how = "responded" =>
         /\ Terminal
         /\ relayCalls = 1
         /\ relayReleases = 1
         /\ thrown = NoError
         /\ response.status = 200
         /\ response.kind = "json"
         /\ response.payload = <<"application/json", relayExit.value>>
    /\ (response.status = 200) => relayExit.how = "responded"

\* the backend returned the second completion and the caller got it
C19_Witness ==
  /\ req.body.stream # "true"
  /\ relayExit.how = "responded"
  /\ relayExit.value = "completion2"
  /\ response.payload[2] = "completion2"
  /\ relayCalls = 1

\* the credential of the resolved selector, if it has one
SelectorCredential ==
  IF modelConfig.apiKey \in {Absent, ""} THEN Absent ELSE modelConfig.apiKey

\* the credential that follows the scheme in the Authorization header
BearerCredential ==
  IF req.auth.present /\ Len(req.auth.words) >= 2 /\ req.auth.words[2] # ""
    THEN req.auth.words[2]
    ELSE Absent

\* C20: the relay's credential is the resolved selector's when it has one,
\* otherwise the bearer credential of the Authorization header when there is
\* one, otherwise the process default; its endpoint is the selector's when
\* it has one, otherwise the default endpoint.
C20_CredentialAndEndpoint ==
  relayCalls >= 1 =>
    /\ relayRequest.apiKey =
         IF SelectorCredential # Absent THEN SelectorCredential
         ELSE IF BearerCredential # Absent THEN BearerCredential
         ELSE "sk-env"
    /\ relayRequest.baseURL =
         IF modelConfig.apiUrl # Absent THEN modelConfig.apiUrl
         ELSE "https://api.openai.com/v1"

\* a selector with a credential of its own was used although the caller
\* sent a bearer credential and the process has a default
C20_Witness ==
  /\ relayCalls = 1
  /\ req.envKey
  /\ BearerCredential = "sk-caller"
  /\ SelectorCredential = "sk-model"
  /\ relayRequest.apiKey = "sk-model"
  /\ relayRequest.baseURL = GoodUrl

HasEndpoint == modelConfig.apiUrl \notin {Absent, ""}

\* C24: every selector the resolver returns has a non-empty name and, when
\* it has an endpoint, one that parses as a URL, whatever it was given
\* (nothing, a bare string or the empty string, a structured selector); the
\* relay opens no connection without such a selector.
C24_ResolvedSelectorValid ==
  /\ Resolved =>
       /\ modelConfig.name \notin {"", Absent}
       /\ modelConfig.apiKey # NotAString
       /\ HasEndpoint => ParsesAsUrl(modelConfig.apiUrl)
  /\ (relayCalls >= 1 \/ relayConn # "none") => Resolved
  /\ (thrown.field # Absent) => (~Resolved /\ relayCalls = 0)

\* an empty bare string was resolved to the fast default and the relay opened
C24_Witness ==
  /\ req.body.fastModel = BareName("")
  /\ ~outcome.useSlowModel
  /\ Resolved
  /\ modelConfig.name = "gpt-4o"
  /\ relayCalls = 1

\* the probe's create call has been made
Probed == probeCalls >= 1

\* C22 as stated: the probe's message list has one entry more than the
\* conversation: the original messages but the last, then the injected
\* instruction, then the original last message; the caller's list is not
\* modified.
C22_ProbeCarriesOriginals ==
  Probed =>
    LET n == Len(req.body.messages)
        sent == probeRequest.messages
    IN  /\ Len(sent) = n + 1
        /\ \A i \in 1..(n - 1) : sent[i] = req.body.messages[i]
        /\ sent[n] = COMPLEXITY_CHECK_PROMPT
        /\ sent[n + 1] = req.body.messages[n]
        /\ body.messages = req.body.messages

\* C22: the probe's message list has one entry more than the conversation:
\* the role and content of each original message but the last (a name the
\* message had is dropped), then the injected instruction, then the role
\* and content of the original last message; the caller's list is not
\* modified.
C22_ProbeMessageOrder ==
  Probed =>
    LET n == Len(req.body.messages)
        sent == probeRequest.messages
    IN  /\ n >= 1
        /\ Len(sent) = n + 1
        /\ \A i \in 1..(n - 1) :
             /\ sent[i].role = req.body.messages[i].role
             /\ sent[i].content = req.body.messages[i].content
             /\ sent[i].name = Absent
        /\ sent[n] = [role |-> "system", content |-> Str(Instruction), name |-> Absent]
        /\ sent[n + 1].role = req.body.messages[n].role
        /\ sent[n + 1].content = req.body.messages[n].content
        /\ sent[n + 1].name = Absent
        /\ body.messages = req.body.messages

\* a conversation of two messages, the first with a name, was probed
C22_Witness ==
  /\ Probed
  /\ Len(req.body.messages) = 2
  /\ req.body.messages[1].name = "bob"
  /\ req.body.messages[2].role = "user"
  /\ Len(probeRequest.messages) = 3
  /\ probeRequest.messages[2].role = "system"

\* C23: the probe's connection is let go on every way out of the probe: after
\* the first non-empty fragment, with or without the marker, when the stream
\* ends without one, and when the attempt fails; it is never open once the
\* classifier has returned, and it is let go once.
C23_ProbeReleasedOnReturn ==
  /\ (Probed /\ Classified) => (probeConn = "closed" /\ probeReleases = 1)
  /\ (Probed /\ ~Classified) =>
       (pc \in {"probeCreate", "probeRead"} /\ probeConn = "open" /\ probeReleases = 0)
  /\ ~Probed => (probeConn = "none" /\ probeReleases = 0)

\* the classifier returned on a first non-empty fragment without the marker
C23_Witness ==
  /\ Probed
  /\ Classified
  /\ ~probeFailed
  /\ Len(probeRead) = 2
  /\ probeRead[2] = <<"H", "i">>
  /\ outcome.reason = "model-simple"
  /\ probeConn = "closed"

\* the content the rules are evaluated on
PromptContent == Prompt(req.body.messages)

\* the outcome was decided by the probe
ByProbe ==
  /\ probeCalls = 1
  /\ outcome.reason \in {"model-detected", "model-simple", "check-failed"}

\* C25: the extractor returns a string content as it is and, for a sequence
\* of parts, the texts of the parts of type text in their order with a
\* single space between them, image and audio parts left out; a sequence
\* with no text part gives the empty text, which triggers neither rule, so
\* the classification is the probe's.
C25_ContentExtractor ==
  req.jsonOk =>
    /\ PromptContent.kind = "string" =>
         extractTextFromContent(PromptContent) = PromptContent.text
    /\ PromptContent.kind = "parts" =>
         /\ extractTextFromContent(PromptContent) = SpacedTexts(PromptContent.parts)
         /\ (\A i \in 1..Len(PromptContent.parts) : PromptContent.parts[i].type # "text")
              => /\ extractTextFromContent(PromptContent) = <<>>
                 /\ Classified => ByProbe
         /\ (Classified /\ ~HoldsSomeTerm(SpacedTexts(PromptContent.parts))) => ByProbe

\* a content of an image and an audio part was classified by the probe
C25_Witness ==
  /\ PromptContent = Parts(<<ImagePart, AudioPart>>)
  /\ Classified
  /\ probeCalls = 1
  /\ outcome.reason = "model-detected"

\* the name the selector of the chosen side stands for
ChosenName ==
  IF ChosenSelector.kind = "config" THEN ChosenSelector.name
  ELSE IF ChosenSelector.kind = "string" /\ ChosenSelector.value # ""
    THEN ChosenSelector.value
  ELSE IF outcome.useSlowModel THEN "gpt-4o-mini" ELSE "gpt-4o"

\* C26: the model name sent on the relay connection is the name of the
\* selector resolved for the side the classification chose, whatever
\* pass-through parameters the caller sent, a `model` parameter included,
\* and the streaming flag sent matches the branch taken.
C26_RelayModelIsResolved ==
  relayCalls >= 1 =>
    /\ modelConfig.name = ChosenName
    /\ relayRequest.model = modelConfig.name
    /\ Streaming => relayRequest.stream = "true"
    /\ relayExit.how = "responded" => relayRequest.stream # "true"

\* C27: once the client has disconnected no backend connection is opened
\* for the request, neither the probe's nor the relay's.
C27_NoConnectionAfterDisconnect ==
  [][clientAborted => (probeCalls' = probeCalls /\ relayCalls' = relayCalls)]_vars

\* C28: nothing is issued on the caller-facing stream controller after a
\* close or an error: no enqueue after either, no close after an error, no
\* second close.
C28_NothingAfterCloseOrError ==
  \A i \in 1..(Len(ctrlLog) - 1) : ctrlLog[i] \notin {"close", "error"}

\* C29: the rules are evaluated on the content of the last message of role
\* user and on nothing else: the classification is by length or by keyword
\* exactly when that text triggers the rule, whatever earlier messages and
\* messages of other roles hold; with no user message the text is empty and
\* the probe is called with the whole conversation.
C29_LastUserMessageOnly ==
  (req.jsonOk /\ Classified) =>
    /\ IF Len(LastUserText) > 1000 THEN outcome.reason = "length"
       ELSE IF HoldsSomeTerm(LastUserText) THEN outcome.reason = "keywords"
       ELSE ByProbe
    /\ UserTurns = {} =>
         /\ ByProbe
         /\ Len(probeRequest.messages) = Len(req.body.messages) + 1
         /\ \A i \in 1..Len(req.body.messages) :
              \E j \in 1..Len(probeRequest.messages) :
                /\ probeRequest.messages[j].role = req.body.messages[i].role
                /\ probeRequest.messages[j].content = req.body.messages[i].content

\* a conversation without a user message, its texts long and with a
\* keyword, was classified by the probe
C29_Witness ==
  /\ UserTurns = {}
  /\ Len(req.body.messages) = 2
  /\ req.body.messages[1].role = "system"
  /\ req.body.messages[2].role = "assistant"
  /\ Classified
  /\ probeCalls = 1
  /\ outcome.reason = "model-simple"

====
